---- MODULE Spec2Model ----
(***************************************************************************)
(* UavLander (src/uav_gym/uav_gym/envs/box2d/uav_lander.py): the terrain   *)
(* generator _gen_uav_terrain, the vehicle assembler _gen_uav_lander, and   *)
(* the episode controller reset/step.                                       *)
(*                                                                          *)
(* Numbers.  The program computes in floating point; the model computes    *)
(* the same expressions exactly, in fixed point:                           *)
(*   - an action component is an integer number of 1/ActScale;             *)
(*   - an engine power is an integer number of 1/PowerScale;               *)
(*   - a reward is an integer number of 1/RewardScale;                     *)
(*   - tan(angle) is an integer number of 1/TanScale;                      *)
(*   - a horizontal node coordinate of a terrain of CHUNKS nodes is an     *)
(*     integer number of 1/(CHUNKS-1);                                     *)
(*   - a terrain height of a terrain of CHUNKS nodes is an integer number  *)
(*     of 1/(HeightScale*TanScale*(CHUNKS-1)), and a drawn height an       *)
(*     integer number of thirds (H = 40/3);                                *)
(*   - the normalized horizontal position state[0] is an integer number    *)
(*     of 1/PosScale.                                                      *)
(* The physics engine (Box2D) is an external collaborator: what one        *)
(* world.Step does to the bodies is a nondeterministic choice among the    *)
(* outcomes WorldStepAllows admits.                                        *)
(***************************************************************************)
EXTENDS Integers, Sequences, FiniteSets, TLC

\* ---------------------------------------------------------------- constants

VIEWPORT_W == 600
VIEWPORT_H == 400
SCALE == 30
width_para == 6
RESET_TERRAIN_NODE == 90

TanScale == 1000
HeightScale == 300
ActScale == 1000
PosScale == 100
PowerScale == 2 * ActScale
RewardScale == 100 * PowerScale

\* bounds of the model
MaxNodes == 31
MaxIdx == 2

\* Python's None, and a value that is not None
None == <<>>
Some(v) == <<v>>

Abs(v) == IF v < 0 THEN -v ELSE v

\* np.clip(v, lo, hi)
Clip(v, lo, hi) == IF v < lo THEN lo ELSE IF v > hi THEN hi ELSE v

\* W = VIEWPORT_W / SCALE, in simulation units (20)
W == VIEWPORT_W \div SCALE

\* H = VIEWPORT_H / SCALE, in thirds of a simulation unit (40/3)
H3 == (3 * VIEWPORT_H) \div SCALE

\* tan(pi/6), rounded towards zero
TanMax == 577

\* ------------------------------------------------------ Python list indexing

\* a Python list of length len accepts the indices -len .. len-1
PyIndexOk(idx, len) == idx >= -len /\ idx < len

\* the 0-based position a valid Python index names
PyIndex(idx, len) == IF idx < 0 THEN idx + len ELSE idx

\* ------------------------------------------------------------------ terrain

\* the values np_random.uniform(0, H/2, size=CHUNKS+1) may return, as thirds:
\* three profiles of drawn heights
HeightProfiles == {"low", "saw", "ramp"}

HeightDraw(profile, CHUNKS) ==
    [i \in 0..CHUNKS |->
        IF profile = "low" THEN 0
        ELSE IF profile = "saw" THEN (IF i % 2 = 0 THEN 3 ELSE 18)
        ELSE (7 * i) % (H3 \div 2)]

\* the values np_random.uniform(H/2, 3H/5) may return, as thirds
HelipadDraws == {H3 \div 2, H3 \div 2 + 2, (3 * H3) \div 5 - 1}

\* tan of the values np_random.uniform(-pi/6, pi/6) may return
TanDraws == {-TanMax, -250, 0, 1, TanMax}

NoTerrain ==
    [err |-> "none", generated |-> FALSE, CHUNKS |-> 0, flat_platform |-> TRUE,
     tan_angle |-> 0, width_node |-> 0, chunk_x |-> <<>>, smooth_y |-> <<>>,
     helipad_y |-> 0, helipad_x1 |-> 0, helipad_x2 |-> 0]

\* mutant of PlatformLoop: both sides of the platform get + diff_high * (i+1)
RECURSIVE PlatformLoopSameSign(_, _, _, _, _, _)
PlatformLoopSameSign(smooth_y, i, width_node, center, helipad_y, diff_high) ==
    IF i >= width_node THEN smooth_y
    ELSE PlatformLoopSameSign(
            [smooth_y EXCEPT ![center - (i + 1)] = helipad_y + diff_high * (i + 1),
                             ![center + (i + 1)] = helipad_y + diff_high * (i + 1)],
            i + 1, width_node, center, helipad_y, diff_high)

\* for i in range(width_node): smooth_y[center -/+ (i+1)] = helipad_y -/+ diff_high*(i+1)
RECURSIVE PlatformLoop(_, _, _, _, _, _)
PlatformLoop(smooth_y, i, width_node, center, helipad_y, diff_high) ==
    IF i >= width_node THEN smooth_y
    ELSE PlatformLoop(
            [smooth_y EXCEPT ![center - (i + 1)] = helipad_y - diff_high * (i + 1),
                             ![center + (i + 1)] = helipad_y + diff_high * (i + 1)],
            i + 1, width_node, center, helipad_y, diff_high)

\* _gen_uav_terrain(terrain_node, flat_platform), with the three random draws
\* as inputs; old is the terrain the object held before the call.
gen_uav_terrain(old, terrain_node, flat_platform, profile, y3, tan_draw) ==
    LET CHUNKS == terrain_node
        unit == TanScale * (CHUNKS - 1)
        height == HeightDraw(profile, CHUNKS)
        chunk_x == [i \in 0..(CHUNKS - 1) |-> W * i]
        smooth0 == [i \in 0..(CHUNKS - 1) |->
                       33 * (height[PyIndex(i - 1, CHUNKS + 1)] + height[i] + height[i + 1])
                          * unit]
        center == CHUNKS \div 2
        helipad_y == (HeightScale \div 3) * y3 * unit
        width_node == (CHUNKS \div width_para - 1) \div 2
        i1 == center - width_node
        i2 == center + width_node
        tan_angle == IF flat_platform THEN 0 ELSE tan_draw
        diff_high == tan_angle * W * HeightScale
        smooth1 == [smooth0 EXCEPT ![center] = helipad_y]
    IN  IF CHUNKS = 1
        THEN \* line 65: W / (CHUNKS - 1) divides by zero
             [old EXCEPT !.err = "ZeroDivisionError"]
        ELSE IF ~PyIndexOk(i1, CHUNKS)
        THEN \* line 75: chunk_x[center - width_node] out of range
             [old EXCEPT !.err = "IndexError", !.helipad_y = helipad_y]
        ELSE IF ~PyIndexOk(i2, CHUNKS)
        THEN \* line 76: chunk_x[center + width_node] out of range
             [old EXCEPT !.err = "IndexError", !.helipad_y = helipad_y,
                         !.helipad_x1 = chunk_x[PyIndex(i1, CHUNKS)]]
        ELSE [err |-> "none", generated |-> TRUE, CHUNKS |-> CHUNKS,
              flat_platform |-> flat_platform, tan_angle |-> tan_angle,
              width_node |-> width_node, chunk_x |-> chunk_x,
              smooth_y |-> PlatformLoop(smooth1, 0, width_node, center,
                                        helipad_y, diff_high),
              helipad_y |-> helipad_y,
              helipad_x1 |-> chunk_x[PyIndex(i1, CHUNKS)],
              helipad_x2 |-> chunk_x[PyIndex(i2, CHUNKS)]]

\* --------------------------------------------------------------- the state

VARIABLES
    continuous,     \* self.continuous: constructor argument
    enable_wind,    \* self.enable_wind: constructor argument
    game_over,      \* self.game_over
    prev_shaping,   \* self.prev_shaping: None or the last shaping value
    wind_idx,       \* self.wind_idx
    torque_idx,     \* self.torque_idx
    lander,         \* self.lander: exists (not None), awake, x = state[0]
    legs,           \* self.legs[i].ground_contact, i in 0..1
    terrain,        \* helipad_y, helipad_x1, helipad_x2 and the moon's vertices
    idx0,           \* the values wind_idx, torque_idx had at construction
    gen_in,         \* the arguments and draws of a lone _gen_uav_terrain call
    last            \* what the latest reset/step call did and returned

vars == <<continuous, enable_wind, game_over, prev_shaping, wind_idx, torque_idx,
          lander, legs, terrain, idx0, gen_in, last>>

config == <<continuous, enable_wind, idx0, gen_in>>

\* the episode state a step reads and writes
Episode ==
    [game_over |-> game_over, prev_shaping |-> prev_shaping,
     wind_idx |-> wind_idx, torque_idx |-> torque_idx,
     lander |-> lander, legs |-> legs]

NoLander == [exists |-> FALSE, awake |-> FALSE, x |-> 0]

NoEvents == [lander_begin |-> FALSE, leg |-> [i \in 0..1 |-> "none"]]

NoCall ==
    [via |-> "none", failed |-> "none", action |-> 0,
     entry_prev_none |-> TRUE, entry_game_over |-> FALSE, entry_contact |-> FALSE,
     entry_wind_idx |-> 0, entry_torque_idx |-> 0,
     wind_applied |-> FALSE, m_power |-> 0, s_power |-> 0, direction |-> 0,
     world_stepped |-> FALSE, events |-> NoEvents,
     reward |-> 0, terminated |-> FALSE]

\* ------------------------------------------------------------------ inputs

\* the values the constructor may draw for wind_idx and torque_idx
IdxDraws == {<<0, 1>>}

\* a continuous action: action[0], action[1]
ContAction(a0, a1) == [i \in 0..1 |-> IF i = 0 THEN a0 ELSE a1]

ContinuousDraws ==
    {ContAction(0, 0), ContAction(-1500, 500), ContAction(1, -501),
     ContAction(1500, 1500)}

DiscreteDraws == {0, 1, 2, 3, 4}

ActionDraws == IF continuous THEN ContinuousDraws ELSE DiscreteDraws

\* the zero action reset() steps with: np.array([0, 0]) or 0
ZeroAction == IF continuous THEN ContAction(0, 0) ELSE 0

\* the normalized horizontal positions state[0] the model tells apart:
\* on or beyond the left bound, inside, on or beyond the right bound
XDraws == {-PosScale, 0, PosScale}

\* the values of -100*|pos| - 100*|vel| - 100*|angle| the model tells apart
PotDraws == {-100, 0}

\* the draws reset() passes to _gen_uav_terrain
ResetTerrainDraws == {<<"saw", H3 \div 2, -TanMax>>, <<"ramp", H3 \div 2 + 2, 250>>}

\* ----------------------------------------------------------------- lander

\* mutant of gen_uav_lander: the new legs inherit the old ground_contact flags
gen_uav_lander_keeps_contact(s) ==
    [s EXCEPT !.lander = [exists |-> TRUE, awake |-> TRUE, x |-> 0]]

\* _gen_uav_lander: a fresh lander at the spawn point (x = W/2, so state[0] = 0),
\* woken by ApplyForceToCenter(..., True); two fresh legs, ground_contact False
gen_uav_lander(s) ==
    [s EXCEPT !.lander = [exists |-> TRUE, awake |-> TRUE, x |-> 0],
              !.legs = [i \in 0..1 |-> FALSE]]

\* ------------------------------------------------------- contact listener

\* ContactDetector.BeginContact / EndContact for the events of one world.Step
ContactDetector(s, ev) ==
    [s EXCEPT !.game_over = @ \/ ev.lander_begin,
              !.legs = [i \in 0..1 |->
                           IF ev.leg[i] = "begin" THEN TRUE
                           ELSE IF ev.leg[i] = "end" THEN FALSE
                           ELSE @[i]]]

\* -------------------------------------------------------------------- step

\* the wind is applied: enable_wind and no leg in ground contact
WindApplies(s) == enable_wind /\ ~(s.legs[0] \/ s.legs[1])

\* mutant of wind: only wind_idx advances
wind_one_counter(s) ==
    IF WindApplies(s)
    THEN [s EXCEPT !.wind_idx = @ + 1, !.lander.awake = TRUE]
    ELSE s

\* the wind block: both counters advance, force and torque wake the lander
wind(s) ==
    IF WindApplies(s)
    THEN [s EXCEPT !.wind_idx = @ + 1, !.torque_idx = @ + 1, !.lander.awake = TRUE]
    ELSE s

\* mutant of ActionValid: the space is taken to hold 0..4
ActionValid_off_by_one(action) == action \in 0..4

\* action_space.contains(action) of Discrete(4)
ActionValid(action) == action \in 0..3

\* np.clip(action, -1, +1)
ClipAction(action) == [i \in 0..1 |-> Clip(action[i], -ActScale, ActScale)]

MainCommanded(action) ==
    IF continuous THEN ClipAction(action)[0] > 0 ELSE action = 2

SideCommanded(action) ==
    IF continuous THEN Abs(ClipAction(action)[1]) > ActScale \div 2
    ELSE action \in {1, 3}

\* mutant of m_power: the continuous power is clip(action[0], 0, 1) * 0.5
m_power_unshifted(action) ==
    IF ~MainCommanded(action) THEN 0
    ELSE IF continuous THEN Clip(ClipAction(action)[0], 0, ActScale)
    ELSE PowerScale

\* m_power: (np.clip(action[0], 0.0, 1.0) + 1.0) * 0.5, or 1.0
m_power(action) ==
    IF ~MainCommanded(action) THEN 0
    ELSE IF continuous THEN Clip(ClipAction(action)[0], 0, ActScale) + ActScale
    ELSE PowerScale

\* s_power: np.clip(np.abs(action[1]), 0.5, 1.0), or 1.0
s_power(action) ==
    IF ~SideCommanded(action) THEN 0
    ELSE IF continuous
    THEN 2 * Clip(Abs(ClipAction(action)[1]), ActScale \div 2, ActScale)
    ELSE PowerScale

\* direction: np.sign(action[1]), or action - 2
direction(action) ==
    IF ~SideCommanded(action) THEN 0
    ELSE IF continuous
    THEN (IF ClipAction(action)[1] > 0 THEN 1
          ELSE IF ClipAction(action)[1] < 0 THEN -1 ELSE 0)
    ELSE action - 2

\* the engines: an impulse on the lander (wake = True) for each engine fired
engines(s, action) ==
    IF m_power(action) > 0 \/ s_power(action) > 0
    THEN [s EXCEPT !.lander.awake = TRUE]
    ELSE s

\* the positions one world.Step away from x
Neighbours(x) == {y \in XDraws : Abs(y - x) <= PosScale}

\* the contact events one world.Step can report for leg i: a contact begins on
\* a leg not in contact, ends on a leg in contact
LegEvents(s, i) == {"none"} \cup (IF s.legs[i] THEN {"end"} ELSE {"begin"})

\* the values of pot a lander at x can read back: pot is the part of the
\* shaping that comes from position, velocity and angle, at most -100 * |state[0]|
Pots(x) == {q \in PotDraws : q * PosScale <= -(100 * Abs(x))}

\* the lander rests on something: it touched the ground, or a leg does
Resting(s) == s.game_over \/ s.legs[0] \/ s.legs[1]

\* The outcomes of one world.Step(1.0 / FPS, ...) from s:
\*  - right after the bodies are created (fresh) the lander is at the spawn
\*    point, far above the terrain: no contact, it stays awake and in place;
\*  - a sleeping lander that no force woke does not move;
\*  - a lander that rests on something may fall asleep where it is (a body
\*    falls asleep only after it has been still);
\*  - otherwise it stays awake, moves to a neighbouring position, and the
\*    listener is told of the contacts that begin and end.
WorldStepOutcomes(fresh, s) ==
    LET still == {[x |-> s.lander.x, awake |-> a, pot |-> p, events |-> NoEvents] :
                    a \in IF fresh THEN {TRUE}
                          ELSE IF ~s.lander.awake THEN {FALSE}
                          ELSE IF Resting(s) THEN {FALSE} ELSE {},
                    p \in Pots(s.lander.x)}
        moving == {w \in [x : Neighbours(s.lander.x), awake : {TRUE}, pot : PotDraws,
                          events : [lander_begin : BOOLEAN,
                                    leg : {[i \in 0..1 |-> IF i = 0 THEN e0 ELSE e1] :
                                             e0 \in LegEvents(s, 0),
                                             e1 \in LegEvents(s, 1)}]] :
                     w.pot \in Pots(w.x)}
    IN  IF fresh \/ ~s.lander.awake THEN still ELSE still \cup moving

\* world.Step: the contact callbacks run, the lander has its new position
world_Step(s, w) ==
    [ContactDetector(s, w.events) EXCEPT !.lander.awake = w.awake, !.lander.x = w.x]

\* shaping, from the state read back after world.Step
shaping(s, w) ==
    w.pot + 10 * (IF s.legs[0] THEN 1 ELSE 0) + 10 * (IF s.legs[1] THEN 1 ELSE 0)

\* reward before the terminal override: the shaping difference (0 without
\* history) minus the fuel cost 0.30 * m_power + 0.03 * s_power
shaped_reward(prev, shape, mp, sp) ==
    (IF prev # None THEN (shape - prev[1]) * RewardScale ELSE 0) - 30 * mp - 3 * sp

\* mutant of Crashed: the game-over flag is not tested
Crashed_bounds_only(s) == Abs(s.lander.x) >= PosScale

\* the first terminal test: game over, or off the lateral bounds
Crashed(s) == s.game_over \/ Abs(s.lander.x) >= PosScale

\* mutant of terminal: the second test is an elif, so the crash wins
terminal_crash_first(s, reward) ==
    IF Crashed(s)
    THEN [terminated |-> TRUE, reward |-> -100 * RewardScale]
    ELSE IF ~s.lander.awake
    THEN [terminated |-> TRUE, reward |-> 100 * RewardScale]
    ELSE [terminated |-> FALSE, reward |-> reward]

\* the terminal override
terminal(s, reward) ==
    LET r1 == IF Crashed(s)
              THEN [terminated |-> TRUE, reward |-> -100 * RewardScale]
              ELSE [terminated |-> FALSE, reward |-> reward]
    IN  IF ~s.lander.awake
        THEN [terminated |-> TRUE, reward |-> 100 * RewardScale]
        ELSE r1

\* what step(action) records about its entry
Entry(s, via, action) ==
    [NoCall EXCEPT !.via = via, !.action = action,
                   !.entry_prev_none = (s.prev_shaping = None),
                   !.entry_game_over = s.game_over,
                   !.entry_contact = (s.legs[0] \/ s.legs[1]),
                   !.entry_wind_idx = s.wind_idx,
                   !.entry_torque_idx = s.torque_idx]

\* step(action) from s, world.Step having the outcome w:
\* the new episode state and the record of the call
step(s, action, w, via) ==
    LET e == Entry(s, via, action)
        s1 == wind(s)
        s2 == engines(s1, action)
        s3 == world_Step(s2, w)
        shape == shaping(s3, w)
        out == terminal(s3, shaped_reward(s.prev_shaping, shape,
                                          m_power(action), s_power(action)))
    IN  IF ~s.lander.exists
        THEN \* assert self.lander is not None
             [state |-> s, call |-> [e EXCEPT !.failed = "no_lander"]]
        ELSE IF ~continuous /\ ~ActionValid(action)
        THEN \* assert self.action_space.contains(action)
             [state |-> s1,
              call |-> [e EXCEPT !.failed = "invalid_action",
                                 !.wind_applied = WindApplies(s)]]
        ELSE [state |-> [s3 EXCEPT !.prev_shaping = Some(shape)],
              call |-> [e EXCEPT !.wind_applied = WindApplies(s),
                                 !.m_power = m_power(action),
                                 !.s_power = s_power(action),
                                 !.direction = direction(action),
                                 !.world_stepped = TRUE,
                                 !.events = w.events,
                                 !.reward = out.reward,
                                 !.terminated = out.terminated]]

\* a call that fails before world.Step has no outcome of it
NoOutcome == [x |-> 0, awake |-> FALSE, pot |-> 0, events |-> NoEvents]

\* the outcomes of world.Step in step(action) from s
StepOutcomes(s, action, fresh) ==
    IF ~s.lander.exists \/ (~continuous /\ ~ActionValid(action))
    THEN {NoOutcome}
    ELSE WorldStepOutcomes(fresh, engines(wind(s), action))

\* the counters are capped: a call that would advance them past MaxIdx is left out
IdxRoom(s) ==
    WindApplies(s) => (s.wind_idx < idx0[1] + MaxIdx /\ s.torque_idx < idx0[2] + MaxIdx)

Store(r) ==
    /\ game_over' = r.state.game_over
    /\ prev_shaping' = r.state.prev_shaping
    /\ wind_idx' = r.state.wind_idx
    /\ torque_idx' = r.state.torque_idx
    /\ lander' = r.state.lander
    /\ legs' = r.state.legs
    /\ last' = r.call

\* ------------------------------------------------------------------- reset

\* mutant of reset_state: prev_shaping is not cleared
reset_state_keeps_shaping(s) ==
    gen_uav_lander([s EXCEPT !.game_over = FALSE])

\* reset(): lines 172-179, the episode state the zero-action step starts from
reset_state(s) ==
    gen_uav_lander([s EXCEPT !.game_over = FALSE, !.prev_shaping = None])

\* ------------------------------------------------------------------ actions

Init ==
    /\ continuous \in BOOLEAN
    /\ enable_wind \in BOOLEAN
    /\ idx0 \in IdxDraws
    /\ wind_idx = idx0[1]
    /\ torque_idx = idx0[2]
    /\ game_over = FALSE
    /\ prev_shaping = None
    /\ lander = NoLander
    /\ legs = [i \in 0..1 |-> FALSE]
    /\ terrain = NoTerrain
    /\ gen_in = None
    /\ last = NoCall

Reset ==
    LET s == reset_state(Episode)
    IN  /\ IdxRoom(s)
        /\ \E d \in ResetTerrainDraws :
             terrain' = gen_uav_terrain(terrain, RESET_TERRAIN_NODE, FALSE,
                                        d[1], d[2], d[3])
        /\ \E w \in StepOutcomes(s, ZeroAction, TRUE) :
             LET r == step(s, ZeroAction, w, "reset") IN Store(r)
        /\ UNCHANGED config

Step ==
    LET s == Episode
    IN  /\ IdxRoom(s)
        /\ \E action \in ActionDraws :
             \E w \in StepOutcomes(s, action, FALSE) :
                LET r == step(s, action, w, "step") IN Store(r)
        /\ UNCHANGED <<terrain, config>>

Next == Reset \/ Step

Spec == Init /\ [][Next]_vars

\* ------------------------------------------- the terrain generator on its own

TerrainInputs ==
    [terrain_node : 0..MaxNodes, flat_platform : BOOLEAN, profile : HeightProfiles,
     y3 : HelipadDraws, tan_draw : TanDraws]

InitTerrain ==
    /\ continuous = FALSE
    /\ enable_wind = FALSE
    /\ idx0 \in IdxDraws
    /\ wind_idx = idx0[1]
    /\ torque_idx = idx0[2]
    /\ game_over = FALSE
    /\ prev_shaping = None
    /\ lander = NoLander
    /\ legs = [i \in 0..1 |-> FALSE]
    /\ terrain = NoTerrain
    /\ gen_in \in {Some(g) : g \in TerrainInputs}
    /\ last = NoCall

GenTerrain ==
    /\ gen_in # None
    /\ last.via = "none"
    /\ terrain' = gen_uav_terrain(terrain, gen_in[1].terrain_node,
                                  gen_in[1].flat_platform, gen_in[1].profile,
                                  gen_in[1].y3, gen_in[1].tan_draw)
    /\ last' = [NoCall EXCEPT !.via = "gen_uav_terrain"]
    /\ UNCHANGED <<continuous, enable_wind, game_over, prev_shaping, wind_idx,
                   torque_idx, lander, legs, idx0, gen_in>>

NextTerrain == GenTerrain

SpecTerrain == InitTerrain /\ [][NextTerrain]_vars

\* ------------------------------------------------------------------ claims

FuelCost(call) == 30 * call.m_power + 3 * call.s_power

\* C1 as claimed: a step that finds the game-over flag set or |state[0]| >= 1.0
\* returns terminated with reward exactly -100, one that finds the lander not
\* awake returns terminated with reward exactly +100, any other step returns
\* terminated = false.
C1_AsClaimed ==
    last.world_stepped =>
        /\ Crashed(Episode) =>
             (last.terminated /\ last.reward = -100 * RewardScale)
        /\ ~lander.awake =>
             (last.terminated /\ last.reward = 100 * RewardScale)
        /\ (~Crashed(Episode) /\ lander.awake) => ~last.terminated

\* C1, amended: a step that finds the lander not awake returns terminated with
\* reward exactly +100, whether or not the game-over flag is set or the lander
\* is off the lateral bounds; one that finds the lander awake and the game-over
\* flag set or |state[0]| >= 1.0 returns terminated with reward exactly -100;
\* any other step returns terminated = false with the shaped reward.
C1_TerminalReward ==
    last.world_stepped =>
        /\ ~lander.awake =>
             (last.terminated /\ last.reward = 100 * RewardScale)
        /\ (lander.awake /\ Crashed(Episode)) =>
             (last.terminated /\ last.reward = -100 * RewardScale)
        /\ (lander.awake /\ ~Crashed(Episode)) => ~last.terminated

\* a caller's step that found the lander asleep after a crash
C1_Witness ==
    /\ last.via = "step"
    /\ last.world_stepped
    /\ Crashed(Episode)
    /\ ~lander.awake
    /\ last.reward = 100 * RewardScale

\* C2 as claimed: the first step a caller issues after reset() has returned
\* has, absent a terminal override, the reward 0 minus the fuel cost.
C2_AsClaimed ==
    [][(last.via = "reset" /\ last'.via = "step" /\ last'.world_stepped
            /\ ~last'.terminated)
          => last'.reward = -FuelCost(last')]_vars

\* C2, amended: the step with no shaping history is the zero-action step that
\* reset() runs itself: a step that starts with prev_shaping = None has, absent
\* a terminal override, the reward 0 minus the fuel cost, and the steps that
\* start so are exactly the steps run by reset(); a step a caller issues
\* always starts with a shaping history.
C2_NoHistoryReward ==
    last.world_stepped =>
        /\ (last.entry_prev_none /\ ~last.terminated)
              => last.reward = -FuelCost(last)
        /\ last.entry_prev_none <=> last.via = "reset"

\* reset() has run its step without history and returned
C2_Witness ==
    /\ last.via = "reset"
    /\ last.world_stepped
    /\ last.entry_prev_none
    /\ ~last.terminated
    /\ last.reward = 0
    /\ prev_shaping # None

\* C3 as claimed: reset() restores the whole episode state before its
\* zero-action step runs: game-over flag false, prev_shaping None, and the
\* wind and torque counters back at their initial values.
C3_AsClaimed ==
    last.via = "reset" =>
        /\ ~last.entry_game_over
        /\ last.entry_prev_none
        /\ last.entry_wind_idx = idx0[1]
        /\ last.entry_torque_idx = idx0[2]

\* C4: both ground_contact flags are false when reset() returns; a flag turns
\* true only in a world step that reported a contact beginning on that leg,
\* and turns false only in one that reported a contact ending on it, or when
\* reset() re-creates the legs.
C4_LegFlags ==
    /\ [](last.via = "reset" => (~legs[0] /\ ~legs[1]))
    /\ [][\A i \in 0..1 :
            /\ (~legs[i] /\ legs'[i])
                 => (last'.world_stepped /\ last'.events.leg[i] = "begin")
            /\ (legs[i] /\ ~legs'[i])
                 => \/ last'.via = "reset"
                    \/ (last'.world_stepped /\ last'.events.leg[i] = "end")]_vars

\* a leg is in contact after a step that reported the contact
C4_Witness ==
    /\ last.via = "step"
    /\ legs[0]
    /\ last.events.leg[0] = "begin"

\* C5 as claimed: a discrete step with an action outside {0,1,2,3} fails its
\* assertion and leaves the episode unchanged: no force, torque or impulse,
\* no world step, prev_shaping and both counters as before the call.
C5_AsClaimed ==
    [][last'.failed = "invalid_action"
          => /\ UNCHANGED <<game_over, prev_shaping, wind_idx, torque_idx, lander, legs>>
             /\ ~last'.wind_applied
             /\ ~last'.world_stepped
             /\ last'.m_power = 0 /\ last'.s_power = 0]_vars

\* C5, amended: a discrete step with an action outside {0,1,2,3} fails its
\* assertion, and only such a step does; the failed step fires no engine, does
\* not advance the world and leaves the game-over flag, prev_shaping, the leg
\* flags and the lander's position unchanged; but the wind block runs before
\* the assertion: when wind is enabled and no leg is in contact the wind force
\* and torque are applied (waking the lander) and both counters advance by 1,
\* otherwise the counters and the lander are unchanged.
C5_FailedStep ==
    /\ [](last.via = "step" /\ lander.exists /\ ~continuous
             => (last.failed = "invalid_action" <=> last.action \notin 0..3))
    /\ [](last.failed = "invalid_action" => (last.via = "step" /\ ~continuous))
    /\ [][last'.failed = "invalid_action"
            => /\ UNCHANGED <<game_over, prev_shaping, legs, terrain>>
               /\ lander'.x = lander.x
               /\ ~last'.world_stepped
               /\ last'.m_power = 0 /\ last'.s_power = 0
               /\ last'.wind_applied <=> (enable_wind /\ ~(legs[0] \/ legs[1]))
               /\ IF last'.wind_applied
                  THEN /\ wind_idx' = wind_idx + 1
                       /\ torque_idx' = torque_idx + 1
                       /\ lander'.awake
                  ELSE UNCHANGED <<wind_idx, torque_idx, lander>>]_vars

\* a failed step that applied the wind
C5_Witness ==
    /\ last.failed = "invalid_action"
    /\ last.wind_applied
    /\ wind_idx = last.entry_wind_idx + 1

\* C6 as claimed: after a step that returned terminated = true, the next step
\* (no reset in between) returns terminated = true.
C6_AsClaimed ==
    [][(last.terminated /\ last'.via = "step" /\ last'.world_stepped)
          => last'.terminated]_vars

\* C6, amended: termination by the game-over flag is left only through
\* reset(): once the flag is set, it stays set until the next reset() and
\* every step returns terminated = true.  Termination by |state[0]| >= 1.0 or
\* by a sleeping lander is not: a later step returns terminated = false when
\* the lander is back inside the bounds, or awake again.
C6_GameOverSticky ==
    [][(game_over /\ last'.via = "step")
          => /\ game_over'
             /\ last'.world_stepped => last'.terminated]_vars

\* a step after the game-over flag was set returned terminated = true
C6_Witness ==
    /\ last.via = "step"
    /\ last.world_stepped
    /\ last.entry_game_over
    /\ last.terminated

\* the platform of a generated terrain
Generated == last.via = "gen_uav_terrain" /\ terrain.generated /\ terrain.err = "none"
Center == terrain.CHUNKS \div 2
PlatformNodes == (Center - terrain.width_node)..(Center + terrain.width_node)
PlatformSteps == (Center - terrain.width_node)..(Center + terrain.width_node - 1)

\* delta = tan(angle) * W / (CHUNKS - 1), in the unit of the heights
Delta == terrain.tan_angle * W * HeightScale

\* one height unit of the terrain: 1 / (HeightScale * HeightUnits)
HeightUnits == TanScale * (terrain.CHUNKS - 1)

OnLine ==
    \A i \in PlatformNodes : terrain.smooth_y[i] = terrain.helipad_y + (i - Center) * Delta

HelipadInRange ==
    /\ 6 * terrain.helipad_y >= H3 * HeightScale * HeightUnits
    /\ 5 * terrain.helipad_y <= H3 * HeightScale * HeightUnits

StrictlyMonotonic ==
    \/ \A i \in PlatformSteps : terrain.smooth_y[i] < terrain.smooth_y[i + 1]
    \/ \A i \in PlatformSteps : terrain.smooth_y[i] > terrain.smooth_y[i + 1]

WeaklyMonotonic ==
    \/ \A i \in PlatformSteps : terrain.smooth_y[i] <= terrain.smooth_y[i + 1]
    \/ \A i \in PlatformSteps : terrain.smooth_y[i] >= terrain.smooth_y[i + 1]

Constant == \A i \in PlatformNodes : terrain.smooth_y[i] = terrain.helipad_y

\* C7 as claimed: the platform nodes lie on the line through (center,
\* helipad_y) with step delta, helipad_y in [H/2, 3H/5]; flat mode: delta = 0
\* and every platform node at helipad_y; non-flat mode: heights strictly
\* monotonic across the span, |delta| <= tan(30 deg) * W / (CHUNKS - 1).
C7_AsClaimed ==
    Generated =>
        /\ OnLine
        /\ HelipadInRange
        /\ terrain.flat_platform => (Delta = 0 /\ Constant)
        /\ ~terrain.flat_platform =>
             (StrictlyMonotonic /\ Abs(terrain.tan_angle) <= TanMax)

\* C7, amended: as claimed, but in non-flat mode the heights are monotonic
\* across the span, strictly so exactly when delta # 0; the drawn angle can
\* be 0, and then the platform is as flat as in flat mode.
C7_Platform ==
    Generated =>
        /\ OnLine
        /\ HelipadInRange
        /\ terrain.flat_platform => (Delta = 0 /\ Constant)
        /\ ~terrain.flat_platform =>
             /\ WeaklyMonotonic
             /\ Abs(terrain.tan_angle) <= TanMax
             /\ Delta = 0 => Constant
             /\ (Delta # 0 /\ terrain.width_node >= 1)
                  => (StrictlyMonotonic /\ ~Constant)

\* a tilted platform of five nodes
C7_Witness ==
    /\ Generated
    /\ ~terrain.flat_platform
    /\ terrain.width_node = 2
    /\ terrain.tan_angle < 0
    /\ terrain.smooth_y[Center - 2] > terrain.smooth_y[Center + 2]

\* C8 as claimed: whenever _gen_uav_terrain completes, the half-width is >= 1
\* and helipad_x1 < helipad_x2, symmetric about the center node (a node count
\* that gives no such platform fails with an error).
C8_AsClaimed ==
    Generated =>
        /\ terrain.width_node >= 1
        /\ terrain.helipad_x1 < terrain.helipad_x2
        /\ terrain.helipad_x1 + terrain.helipad_x2 = 2 * terrain.chunk_x[Center]

\* C9: a completed step has each engine's power in its range.  Continuous:
\* the main engine fires iff action[0] > 0, with m_power in [0.5, 1.0], the
\* lateral engine iff |action[1]| > 0.5, with s_power in [0.5, 1.0] and the
\* direction the sign of action[1].  Discrete: action 2 fires the main engine
\* and actions 1, 3 the lateral engine (direction action - 2), at power 1.0.
\* An engine not commanded has power 0, so discrete action 0 fires nothing.
C9_EnginePower ==
    last.world_stepped =>
        IF continuous
        THEN /\ last.m_power > 0 <=> last.action[0] > 0
             /\ last.m_power > 0
                  => (2 * last.m_power >= PowerScale /\ last.m_power <= PowerScale)
             /\ last.s_power > 0 <=> Abs(last.action[1]) > ActScale \div 2
             /\ last.s_power > 0
                  => /\ 2 * last.s_power >= PowerScale /\ last.s_power <= PowerScale
                     /\ last.direction = (IF last.action[1] > 0 THEN 1 ELSE -1)
             /\ last.m_power \in {0} \cup (1..PowerScale)
             /\ last.s_power \in {0} \cup (1..PowerScale)
        ELSE /\ last.m_power = (IF last.action = 2 THEN PowerScale ELSE 0)
             /\ last.s_power = (IF last.action \in {1, 3} THEN PowerScale ELSE 0)
             /\ last.s_power > 0 => last.direction = last.action - 2
             /\ last.action = 0 => FuelCost(last) = 0

\* a continuous step that fired both engines, the main one just above 0.5
C9_Witness ==
    /\ continuous
    /\ last.via = "step"
    /\ last.world_stepped
    /\ last.action[0] = 1
    /\ last.m_power > 0
    /\ last.m_power < PowerScale
    /\ last.s_power > 0

\* C10: a step applies the wind force and torque iff wind is enabled and no
\* leg's ground_contact flag is set when the step starts; both counters
\* advance by exactly 1 in a step that applies the wind and are unchanged in
\* every other step, so their difference is constant.  (A step before the
\* first reset() fails at once and is no step here.)
C10_Wind ==
    /\ [](torque_idx - wind_idx = idx0[2] - idx0[1])
    /\ [][(last'.via \in {"reset", "step"} /\ last'.failed # "no_lander")
            => /\ last'.wind_applied <=> (enable_wind /\ ~last'.entry_contact)
               /\ last'.via = "step" => (last'.entry_contact <=> (legs[0] \/ legs[1]))
               /\ last'.via = "reset" => ~last'.entry_contact
               /\ IF last'.wind_applied
                  THEN wind_idx' = wind_idx + 1 /\ torque_idx' = torque_idx + 1
                  ELSE UNCHANGED <<wind_idx, torque_idx>>]_vars

\* a caller's step applied the wind a second time in the episode
C10_Witness ==
    /\ last.via = "step"
    /\ last.wind_applied
    /\ wind_idx = idx0[1] + 2
    /\ torque_idx = idx0[2] + 2
====
